---------------------------- MODULE Spec2Model ----------------------------
(***************************************************************************)
(* Course dashboard: the growth engine of app.py (compute_growth) and the   *)
(* update orchestrator and pattern extractor of scraper.py.                 *)
(*                                                                          *)
(* Optional values (Python None / pandas NaN) are modelled as sequences of  *)
(* length 0 or 1: None is <<>>, the value v is <<v>>.                       *)
(***************************************************************************)
EXTENDS Integers, Sequences, FiniteSets

None == <<>>

Some(v) == <<v>>

\* pd.notna(x) / "x is not None"
notna(x) == x # None

(***************************************************************************)
(* Bounds of the model.                                                     *)
(***************************************************************************)
\* snapshot rows in the row store
MaxRows == 3

\* calendar dates on which a scrape can happen: 1..MaxDay
MaxDay == 3

\* characters of a page text handed to the pattern extractor
MaxLen == 4

\* courses in the cached roster, all platforms together
MaxCourses == 2

(***************************************************************************)
(* Row store (table course_scrapes) as the dashboard reads it.              *)
(***************************************************************************)
Platforms == {"hahow", "pressplay"}

\* groupby sorts its keys: "hahow" < "pressplay"
PlatformOrder == <<"hahow", "pressplay">>

CourseNames == {"A"}

Days == 1..MaxDay

\* time of day of a scrape; scraped_at is the pair (date, tod)
Tods == {0, 1}

StudentVals == {None, Some(0), Some(5), Some(10)}

\* The rows the scraper can have stored: every snapshot of the hahow course,
\* and, so that there is a second group, one daily snapshot of a pressplay
\* course of the same name.
SnapshotRow ==
    [platform : {"hahow"}, course_name : CourseNames, date : Days, tod : Tods,
     students : StudentVals]
    \cup
    [platform : {"pressplay"}, course_name : CourseNames, date : Days, tod : {0},
     students : {None, Some(5)}]

VARIABLES
    store,      \* rows of course_scrapes (a set: the table has no order of its own)
    df_f,       \* the filtered frame handed to compute_growth, in load order
    growth_df,  \* the GrowthRecord table compute_growth returned (None: not rendered)
    sidebar,    \* the values of the sidebar widgets of the run (None: not rendered)
    fast_view   \* what the fastest-growing view came to (None: not rendered)

growthVars == <<store, df_f, growth_df, sidebar, fast_view>>

VARIABLES
    md,          \* extract_students_from_markdown: the text
    patterns,    \* its pattern list
    returned,    \* whether it has returned
    students     \* what it returned (None: not found)

extractVars == <<md, patterns, returned, students>>

VARIABLES
    course_list, \* update_student_counts: the roster, as dict items in order
    pc,          \* "course": at the head of the course loop; "attempt": about
                 \* to fetch; "done": returned
    platform_no, \* index of the platform in course_list
    rank,        \* 1-based position of the course in its platform's list
    attempt_no,  \* the attempt about to be made
    fetches,     \* the app.scrape calls made for the current course
    rows         \* the rows appended so far

updateVars == <<course_list, pc, platform_no, rank, attempt_no, fetches, rows>>

VARIABLES
    list_platform, \* discover_courses: index of the platform in PLATFORMS
    page_no,       \* index of the next listing page in list_urls
    all_courses,   \* the platform's accumulated list
    seen_urls,     \* the urls accepted for the platform
    result,        \* the finished platforms, as dict items in order
    listing        \* the last app.scrape of a listing page of the platform and
                   \* all_courses before it (None: no page fetched yet)

discoverVars == <<list_platform, page_no, all_courses, seen_urls, result, listing>>

VARIABLES
    cache,       \* data/course_list.json (None: the file does not exist)
    prior_cache, \* data/course_list.json as it was when the process started
    config,      \* FIRECRAWL_API_KEY and SUPABASE_URL/SUPABASE_KEY are set
    discover,    \* args.discover
    mpc,         \* main: "idle" (not started), "start", "discover",
                 \* "discovered", "update", "exit"
    exit_code,   \* the exit status of the process (None: still running)
    inserted     \* the rows handed to insert(...).execute() (None: no call)

mainVars == <<cache, prior_cache, config, discover, mpc, exit_code, inserted>>

scraperVars == <<discoverVars, mainVars>>

vars == <<growthVars, extractVars, updateVars, scraperVars>>

(***************************************************************************)
(* scraper.py: the pattern extractor.                                       *)
(*                                                                          *)
(* A text is a sequence of characters.  The digits are "1" and "2", "," is  *)
(* the ASCII comma, " " a whitespace character and "x" any other character. *)
(* Each anchor phrase of the patterns is one character of the model:        *)
(*   "tongxue"   位同學        "goumaishu"  當前購買數                      *)
(*   "xuexi"     人學習        "yugou"      人預購                          *)
(***************************************************************************)
Digits == {"1", "2"}

Whitespace == {" "}

\* .{0,100}? in the second hahow pattern
GapMax == 100

\* ([\d,]+)\s*ANCHOR and (\d+)\s*ANCHOR
RunAnchor(class, anchor) == [kind |-> "run_anchor", class |-> class, anchor |-> anchor]

\* ANCHOR.{0,100}?(\d+)
AnchorGap(anchor) == [kind |-> "anchor_gap", class |-> Digits, anchor |-> anchor]

\* PLATFORMS[...]["student_patterns"], and the list of a funding course
HahowPatterns == <<RunAnchor(Digits, "tongxue"), AnchorGap("goumaishu")>>

PressplayPatterns ==
    <<RunAnchor(Digits \cup {","}, "xuexi"), RunAnchor(Digits \cup {","}, "yugou")>>

FundingPatterns == <<RunAnchor(Digits \cup {","}, "yugou")>>

\* config.get("student_patterns", [])
student_patterns(platform) ==
    IF platform = "hahow" THEN HahowPatterns ELSE PressplayPatterns

\* the last index of the run of characters of class that starts at i
\* (i - 1 when the character at i is not of the class)
RECURSIVE RunEnd(_, _, _)
RunEnd(text, i, class) ==
    IF i <= Len(text) /\ text[i] \in class THEN RunEnd(text, i + 1, class) ELSE i - 1

\* the group captured by a match of pat that starts at i, else None
MatchAt(pat, text, i) ==
    IF pat.kind = "run_anchor"
    THEN LET e == RunEnd(text, i, pat.class)
             w == RunEnd(text, e + 1, Whitespace)
         IN  IF e >= i /\ w + 1 <= Len(text) /\ text[w + 1] = pat.anchor
             THEN Some(SubSeq(text, i, e)) ELSE None
    ELSE LET gaps == {k \in 0..GapMax :
                         i + 1 + k <= Len(text) /\ text[i + 1 + k] \in pat.class}
         IN  IF text[i] = pat.anchor /\ gaps # {}
             THEN LET k == CHOOSE g \in gaps : \A h \in gaps : g <= h
                  IN  Some(SubSeq(text, i + 1 + k, RunEnd(text, i + 1 + k, pat.class)))
             ELSE None

\* re.search(pat, md, re.DOTALL): the match at the leftmost position; its group(1)
re_search(pat, text) ==
    LET at == {i \in 1..Len(text) : notna(MatchAt(pat, text, i))}
    IN  IF at = {} THEN None
        ELSE MatchAt(pat, text, CHOOSE i \in at : \A j \in at : i <= j)

\* s.replace(",", "").replace("，", "")
StripCommas(s) == SelectSeq(s, LAMBDA c : c # "," /\ c # "fullwidth_comma")

DigitVal(c) == IF c = "1" THEN 1 ELSE 2

RECURSIVE int(_)
int(s) == IF s = <<>> THEN 0 ELSE 10 * int(SubSeq(s, 1, Len(s) - 1)) + DigitVal(s[Len(s)])

\* int() raises ValueError on a string that is not a number: here, the empty one
ValueError(s) ==
    LET t == StripCommas(s)
    IN  t = <<>> \/ \E i \in 1..Len(t) : t[i] \notin Digits

parse_int(s) == int(StripCommas(s))

\* the for loop from pattern k on, with "return None" in place of "continue"
RECURSIVE extract_loop_abort(_, _, _)
extract_loop_abort(text, pats, k) ==
    IF k > Len(pats) THEN None
    ELSE LET m == re_search(pats[k], text)
         IN  IF notna(m)
             THEN IF ~ValueError(m[1]) THEN Some(parse_int(m[1])) ELSE None
             ELSE extract_loop_abort(text, pats, k + 1)

\* the for loop of extract_students_from_markdown, from pattern k on
RECURSIVE extract_loop(_, _, _)
extract_loop(text, pats, k) ==
    IF k > Len(pats) THEN None
    ELSE LET m == re_search(pats[k], text)
         IN  IF notna(m)
             THEN IF ~ValueError(m[1])
                  THEN Some(parse_int(m[1]))
                  ELSE extract_loop(text, pats, k + 1)
             ELSE extract_loop(text, pats, k + 1)

extract_students_from_markdown(text, pats) == extract_loop(text, pats, 1)

\* the characters a page of the platform of the patterns is made of
Alphabet(pats) ==
    Digits \cup {",", " ", "x"} \cup {pats[k].anchor : k \in 1..Len(pats)}
    \cup (IF pats = FundingPatterns THEN {"xuexi"} ELSE {})

Texts(pats) == UNION {[1..n -> Alphabet(pats)] : n \in 0..MaxLen}

ExtractIdle ==
    /\ md = <<>>
    /\ patterns = <<>>
    /\ returned = FALSE
    /\ students = None

UpdateIdle ==
    /\ course_list = <<>>
    /\ pc = "done"
    /\ platform_no = 1
    /\ rank = 1
    /\ attempt_no = 1
    /\ fetches = <<>>
    /\ rows = <<>>

DiscoverIdle ==
    /\ list_platform = 1
    /\ page_no = 1
    /\ all_courses = <<>>
    /\ seen_urls = {}
    /\ result = <<>>
    /\ listing = None

\* the scraper process is not started
ScraperIdle ==
    /\ DiscoverIdle
    /\ cache = None
    /\ prior_cache = None
    /\ config = [FIRECRAWL_API_KEY |-> TRUE, SUPABASE |-> TRUE]
    /\ discover = FALSE
    /\ mpc = "idle"
    /\ exit_code = None
    /\ inserted = None

\* a call of extract_students_from_markdown on a page text
InitExtract ==
    /\ patterns \in {HahowPatterns, PressplayPatterns, FundingPatterns}
    /\ md \in Texts(patterns)
    /\ returned = FALSE
    /\ students = None
    /\ store = {}
    /\ df_f = <<>>
    /\ growth_df = None
    /\ sidebar = None
    /\ fast_view = None
    /\ UpdateIdle
    /\ ScraperIdle

Extract ==
    /\ ~returned
    /\ students' = extract_students_from_markdown(md, patterns)
    /\ returned' = TRUE
    /\ UNCHANGED <<md, patterns, growthVars, updateVars, scraperVars>>

NextExtract == Extract

SpecExtract == InitExtract /\ [][NextExtract]_vars

(***************************************************************************)
(* scraper.py: update_student_counts.                                       *)
(*                                                                          *)
(* A URL is a sequence of pieces: "http" is the scheme prefix, " " is       *)
(* whitespace, anything else a piece of path.                               *)
(***************************************************************************)
\* len(md) < 1500
MIN_MD_LEN == 1500

\* the attempts list of the fetch loop
attempts ==
    <<[proxy |-> Some("stealth"), wait_for |-> 5000],
      [proxy |-> None, wait_for |-> 15000]>>

RECURSIVE lstrip(_)
lstrip(u) == IF u # <<>> /\ u[1] \in Whitespace THEN lstrip(Tail(u)) ELSE u

RECURSIVE rstrip(_)
rstrip(u) ==
    IF u # <<>> /\ u[Len(u)] \in Whitespace THEN rstrip(SubSeq(u, 1, Len(u) - 1)) ELSE u

\* str.strip()
strip(u) == rstrip(lstrip(u))

\* url and url.startswith("http")
IsHttp(u) == u # <<>> /\ u[1] = "http"

Urls == {<<"http", "c">>, <<"c">>, <<" ">>}

\* the entries a cached roster can hold for a platform, without their names:
\* a count from the listing page or none; on pressplay, a funding course has
\* no count (parse_pressplay_listing_html)
RosterEntries(platform) ==
    [url : Urls, students : {None, Some(7)}, is_funding : {FALSE}]
    \cup (IF platform = "pressplay"
          THEN [url : Urls, students : {None}, is_funding : {TRUE}]
          ELSE {})

\* the lists of n entries; the k-th course is named by its position
RosterLists(platform, n) ==
    {[k \in 1..n |-> [course_name |-> <<"course", k>>,
                      url         |-> es[k].url,
                      students    |-> es[k].students,
                      is_funding  |-> es[k].is_funding]] :
        es \in [1..n -> RosterEntries(platform)]}

\* course_list.items(): non-empty lists (main drops the empty ones), hahow first
Rosters ==
    UNION {{<<<<"hahow", h>>>> : h \in RosterLists("hahow", n)} : n \in 1..MaxCourses}
    \cup
    UNION {{<<<<"pressplay", q>>>> : q \in RosterLists("pressplay", n)} : n \in 1..MaxCourses}
    \cup
    UNION {{<<<<"hahow", h>>, <<"pressplay", q>>>> :
                h \in RosterLists("hahow", n[1]), q \in RosterLists("pressplay", n[2])} :
           n \in {m \in (1..MaxCourses) \X (1..MaxCourses) : m[1] + m[2] <= MaxCourses}}

\* what app.scrape can do: raise, or return a result whose markdown is None
\* or a text of some length; body holds the characters that matter to the
\* patterns
Bodies == {<<"x">>, <<"1", "2", "xuexi", "2", "yugou">>, <<"1", "tongxue">>}

MdLens == {1499, 1500}

Responses ==
    {[raised |-> TRUE, markdown |-> None], [raised |-> FALSE, markdown |-> None]}
    \cup {[raised |-> FALSE, markdown |-> Some([length |-> l, body |-> b])] :
            l \in MdLens, b \in Bodies}

\* md = res.markdown or ""
markdown_or_empty(res) ==
    IF notna(res.markdown) THEN res.markdown[1] ELSE [length |-> 0, body |-> <<>>]

\* course_patterns
course_patterns(platform, course) ==
    IF platform = "pressplay" /\ course.is_funding
    THEN FundingPatterns ELSE student_patterns(platform)

\* the dict appended to rows, with rank counted from 0
SnapshotDictZeroBased(platform, rk, course, count) ==
    [platform    |-> platform,
     rank        |-> rk - 1,
     course_name |-> course.course_name,
     students    |-> count,
     course_url  |-> strip(course.url)]

\* the dict appended to rows
SnapshotDict(platform, rk, course, count) ==
    [platform    |-> platform,
     rank        |-> rk,
     course_name |-> course.course_name,
     students    |-> count,
     course_url  |-> strip(course.url)]

\* AttemptOutcome without the length check: the extractor runs on every body
AttemptOutcomeNoSuspect(res, no, pats) ==
    IF res.raised
    THEN [next |-> FALSE, students |-> None, extracted |-> FALSE]
    ELSE LET found == extract_students_from_markdown(markdown_or_empty(res).body, pats)
         IN  IF notna(found)
             THEN [next |-> FALSE, students |-> found, extracted |-> TRUE]
             ELSE [next |-> no < Len(attempts), students |-> None, extracted |-> TRUE]

\* AttemptOutcome with "continue" in the except clause
AttemptOutcomeRetryOnError(res, no, pats) ==
    IF res.raised
    THEN [next |-> no < Len(attempts), students |-> None, extracted |-> FALSE]
    ELSE LET text == markdown_or_empty(res)
         IN  IF text.length < MIN_MD_LEN /\ no < Len(attempts)
             THEN [next |-> TRUE, students |-> None, extracted |-> FALSE]
             ELSE LET found == extract_students_from_markdown(text.body, pats)
                  IN  IF notna(found)
                      THEN [next |-> FALSE, students |-> found, extracted |-> TRUE]
                      ELSE [next |-> no < Len(attempts), students |-> None,
                            extracted |-> TRUE]

\* one pass of the body of "for attempt_no, opt in enumerate(attempts)" on
\* the result res of app.scrape: whether the loop goes on to the next attempt,
\* the value of students when it does not, and whether the extractor ran.
\* students is None whenever an attempt starts: a value ends the loop.
AttemptOutcome(res, no, pats) ==
    IF res.raised
    THEN [next |-> FALSE, students |-> None, extracted |-> FALSE]
    ELSE LET text == markdown_or_empty(res)
         IN  IF text.length < MIN_MD_LEN /\ no < Len(attempts)
             THEN [next |-> TRUE, students |-> None, extracted |-> FALSE]
             ELSE LET found == extract_students_from_markdown(text.body, pats)
                  IN  IF notna(found)
                      THEN [next |-> FALSE, students |-> found, extracted |-> TRUE]
                      ELSE [next |-> no < Len(attempts), students |-> None,
                            extracted |-> TRUE]

CurPlatform == course_list[platform_no][1]

CurCourses == course_list[platform_no][2]

CurCourse == CurCourses[rank]

\* the next iteration of the two nested for loops, or the return
NextCourse ==
    IF rank < Len(CurCourses)
    THEN /\ rank' = rank + 1
         /\ UNCHANGED platform_no
         /\ pc' = "course"
    ELSE IF platform_no < Len(course_list)
         THEN /\ platform_no' = platform_no + 1
              /\ rank' = 1
              /\ pc' = "course"
         ELSE /\ pc' = "done"
              /\ UNCHANGED <<platform_no, rank>>

\* rows.append({...}) and on to the next course
Emit(count) ==
    /\ rows' = Append(rows, SnapshotDict(CurPlatform, rank, CurCourse, count))
    /\ NextCourse

\* update_student_counts(app, course_list), called on a cached roster
InitUpdate ==
    /\ course_list \in Rosters
    /\ pc = "course"
    /\ platform_no = 1
    /\ rank = 1
    /\ attempt_no = 1
    /\ fetches = <<>>
    /\ rows = <<>>
    /\ store = {}
    /\ df_f = <<>>
    /\ growth_df = None
    /\ sidebar = None
    /\ fast_view = None
    /\ ExtractIdle
    /\ ScraperIdle

\* KnownCount without the "continue": the course goes into the attempts loop
KnownCountFetches ==
    /\ pc = "course"
    /\ notna(CurCourse.students)
    /\ pc' = "attempt"
    /\ attempt_no' = 1
    /\ fetches' = <<>>
    /\ UNCHANGED <<course_list, platform_no, rank, rows, growthVars, extractVars,
                   scraperVars>>

\* existing is not None: the count of the listing page, no fetch
KnownCount ==
    /\ pc = "course"
    /\ notna(CurCourse.students)
    /\ Emit(CurCourse.students)
    /\ fetches' = <<>>
    /\ UNCHANGED <<course_list, attempt_no, growthVars, extractVars, scraperVars>>

\* InvalidUrl with "continue" in the else branch: no row for the course
InvalidUrlSkipsRow ==
    /\ pc = "course"
    /\ CurCourse.students = None
    /\ ~IsHttp(strip(CurCourse.url))
    /\ NextCourse
    /\ fetches' = <<>>
    /\ UNCHANGED <<course_list, attempt_no, rows, growthVars, extractVars, scraperVars>>

\* not (url and url.startswith("http")): no fetch, students stays None
InvalidUrl ==
    /\ pc = "course"
    /\ CurCourse.students = None
    /\ ~IsHttp(strip(CurCourse.url))
    /\ Emit(None)
    /\ fetches' = <<>>
    /\ UNCHANGED <<course_list, attempt_no, growthVars, extractVars, scraperVars>>

\* students = None and into the attempts loop
EnterAttempts ==
    /\ pc = "course"
    /\ CurCourse.students = None
    /\ IsHttp(strip(CurCourse.url))
    /\ pc' = "attempt"
    /\ attempt_no' = 1
    /\ fetches' = <<>>
    /\ UNCHANGED <<course_list, platform_no, rank, rows, growthVars, extractVars, scraperVars>>

\* one attempt: app.scrape(**scrape_kwargs) and the rest of the loop body;
\* when the loop ends, the row is appended
Attempt ==
    /\ pc = "attempt"
    /\ \E res \in Responses :
         LET opt == attempts[attempt_no]
             out == AttemptOutcome(res, attempt_no,
                                   course_patterns(CurPlatform, CurCourse))
         IN  /\ fetches' = Append(fetches,
                                  [attempt_no |-> attempt_no,
                                   proxy      |-> opt.proxy,
                                   wait_for   |-> opt.wait_for,
                                   res        |-> res,
                                   extracted  |-> out.extracted])
             /\ IF out.next
                THEN /\ attempt_no' = attempt_no + 1
                     /\ UNCHANGED <<pc, platform_no, rank, rows>>
                ELSE /\ Emit(out.students)
                     /\ UNCHANGED attempt_no
    /\ UNCHANGED <<course_list, growthVars, extractVars, scraperVars>>

NextUpdate == KnownCount \/ InvalidUrl \/ EnterAttempts \/ Attempt

SpecUpdate == InitUpdate /\ [][NextUpdate]_vars

(***************************************************************************)
(* scraper.py: discover_courses.                                            *)
(*                                                                          *)
(* A course name is a sequence of characters, "ke" a CJK character.  A URL  *)
(* is a sequence of pieces, as above; "/courses/", "/services/",            *)
(* "/campaigns/", "/project/", "/about" and "/" are pieces of path.  A      *)
(* card of a listing page's HTML is a record of the href of its link and    *)
(* the texts of its elements; the category label "課程" is "course" and     *)
(* "服務" is "service".                                                     *)
(***************************************************************************)
\* list_urls: the number of listing pages of a platform
MaxPages == 2

\* config.get("max_courses", 50)
max_courses == 2

\* has_chinese
has_chinese(text) == \E i \in 1..Len(text) : text[i] = "ke"

\* piece in url
Contains(u, piece) == \E i \in 1..Len(u) : u[i] = piece

url_blocklist == {"/services/", "/campaigns/"}

\* urlparse(url).path
urlparse_path(u) == IF IsHttp(u) THEN Tail(u) ELSE u

\* .rstrip("/")
RECURSIVE rstrip_slash(_)
rstrip_slash(u) ==
    IF u # <<>> /\ u[Len(u)] = "/" THEN rstrip_slash(SubSeq(u, 1, Len(u) - 1)) ELSE u

\* re.search(r"([\d,]+)", text): the leftmost run of digits and commas
search_run(text) ==
    LET class == Digits \cup {","}
        at    == {i \in 1..Len(text) : text[i] \in class}
    IN  IF at = {} THEN None
        ELSE LET i == CHOOSE k \in at : \A j \in at : k <= j
             IN  Some(SubSeq(text, i, RunEnd(text, i, class)))

\* students = None; if m: try: students = parse_int(m.group(1))
\* except ValueError: pass
parsed_or_none(m) ==
    IF notna(m) /\ ~ValueError(m[1]) THEN Some(parse_int(m[1])) ELSE None

\* parse_hahow_listing_html: html is the sequence of the cards that have a
\* type element and a link; a later card of the same href replaces an earlier
parse_hahow_listing_html(html) ==
    [h \in {html[i].href : i \in 1..Len(html)} |->
        LET i == CHOOSE k \in 1..Len(html) :
                     /\ html[k].href = h
                     /\ \A j \in (k + 1)..Len(html) : html[j].href # h
        IN  [type     |-> html[i].type,
             students |-> IF notna(html[i].students_text)
                          THEN parsed_or_none(search_run(html[i].students_text[1]))
                          ELSE None]]

\* parse_pressplay_listing_html: html is the sequence of the project links;
\* the first link of a path gives its entry, a funding element anywhere on a
\* card of the path makes it a funding course
parse_pressplay_listing_html(html) ==
    LET raw_path(k)   == rstrip_slash(html[k].href)
        funding_paths == {raw_path(k) : k \in {j \in 1..Len(html) : html[j].funding}}
    IN  [h \in {raw_path(k) : k \in 1..Len(html)} \ {<<>>} |->
            LET i == CHOOSE k \in 1..Len(html) :
                         /\ raw_path(k) = h
                         /\ \A j \in 1..(k - 1) : raw_path(j) # h
            IN  [is_funding |-> h \in funding_paths,
                 students   |-> IF h \in funding_paths THEN None
                                ELSE parsed_or_none(
                                         re_search(RunAnchor(Digits \cup {","}, "xuexi"),
                                                   html[i].text))]]

\* card_data.get(path, default)
card_get(card_data, path, default) ==
    IF path \in DOMAIN card_data THEN card_data[path] ELSE default

\* courses if "html" is empty, else the enriched list without the type filter
hahow_cards_keep_all(courses, html) ==
    IF html = None THEN courses
    ELSE LET card_data == parse_hahow_listing_html(html[1])
             info(c)   == card_get(card_data, urlparse_path(c.url),
                                   [type |-> "", students |-> None])
         IN  [i \in 1..Len(courses) |->
                 [courses[i] EXCEPT !.students = info(courses[i]).students]]

\* if platform == "hahow": the join with the cards of the page
hahow_cards(courses, html) ==
    IF html = None THEN courses
    ELSE LET card_data == parse_hahow_listing_html(html[1])
             info(c)   == card_get(card_data, urlparse_path(c.url),
                                   [type |-> "", students |-> None])
             enriched  == SelectSeq(courses,
                             LAMBDA c : ~(info(c).type # "" /\ info(c).type # "course"))
         IN  [i \in 1..Len(enriched) |->
                 [enriched[i] EXCEPT !.students = info(enriched[i]).students]]

\* if platform == "pressplay": the join with the cards of the page
pressplay_cards(courses, html) ==
    IF html = None THEN courses
    ELSE LET card_data == parse_pressplay_listing_html(html[1])
             none      == [is_funding |-> FALSE, students |-> None]
             raw(c)    == rstrip_slash(urlparse_path(c.url))
             path(c)   == IF raw(c) # <<>> /\ raw(c)[Len(raw(c))] = "/about"
                          THEN SubSeq(raw(c), 1, Len(raw(c)) - 1) ELSE raw(c)
             info(c)   == card_get(card_data, path(c), card_get(card_data, raw(c), none))
         IN  [i \in 1..Len(courses) |->
                 [courses[i] EXCEPT !.is_funding = info(courses[i]).is_funding,
                                    !.students   = info(courses[i]).students]]

\* the courses of a page with structured data, after the filters and the join
page_courses(platform, res) ==
    LET named == SelectSeq(res.json[1], LAMBDA c : has_chinese(c.course_name))
        pages == SelectSeq(named,
                     LAMBDA c : /\ platform = "hahow" => Contains(c.url, "/courses/")
                                /\ \A b \in url_blocklist : ~Contains(c.url, b))
    IN  IF platform = "hahow" THEN hahow_cards(pages, res.html)
        ELSE pressplay_cards(pages, res.html)

\* the dedup loop without the test on seen_urls
RECURSIVE dedup_unseen(_, _, _)
dedup_unseen(all, seen, courses) ==
    IF courses = <<>> THEN [all_courses |-> all, seen_urls |-> seen]
    ELSE LET c == Head(courses)
         IN  IF c.url # <<>>
             THEN dedup_unseen(Append(all, c), seen \cup {c.url}, Tail(courses))
             ELSE dedup_unseen(all, seen, Tail(courses))

\* for c in courses: if url and url not in seen_urls: ...
RECURSIVE dedup(_, _, _)
dedup(all, seen, courses) ==
    IF courses = <<>> THEN [all_courses |-> all, seen_urls |-> seen]
    ELSE LET c == Head(courses)
         IN  IF c.url # <<>> /\ c.url \notin seen
             THEN dedup(Append(all, c), seen \cup {c.url}, Tail(courses))
             ELSE dedup(all, seen, Tail(courses))

\* page_outcome where a failed page empties the accumulated list
page_outcome_reset(platform, res, all, seen) ==
    IF res.raised \/ res.json = None
    THEN [all_courses |-> <<>>, seen_urls |-> {}]
    ELSE dedup(all, seen, page_courses(platform, res))

\* the body of "for page_url in list_urls" on the result res of app.scrape
page_outcome(platform, res, all, seen) ==
    IF res.raised \/ res.json = None
    THEN [all_courses |-> all, seen_urls |-> seen]
    ELSE dedup(all, seen, page_courses(platform, res))

\* the last max_courses items
truncate_last(all) ==
    SubSeq(all, IF Len(all) > max_courses THEN Len(all) - max_courses + 1 ELSE 1, Len(all))

\* all_courses[:max_courses]
truncate(all) ==
    SubSeq(all, 1, IF Len(all) > max_courses THEN max_courses ELSE Len(all))

\* an item of the LLM's structured result
Item(name, url, count) ==
    [course_name |-> name, url |-> url, students |-> count, is_funding |-> FALSE]

\* the count the LLM puts in the optional "students" field of CourseLink
LLM_COUNT == 9

HahowItem(slug) ==
    CASE slug = "a" -> Item(<<"ke", "a">>, <<"http", "/courses/", "a">>, Some(LLM_COUNT))
      [] slug = "b" -> Item(<<"ke", "b">>, <<"http", "/courses/", "b">>, Some(LLM_COUNT))
      [] slug = "c" -> Item(<<"ke", "c">>, <<"http", "/courses/", "c">>, None)
      [] slug = "d" -> Item(<<"ke", "d">>, <<"/courses/", "d">>, None)
      [] slug = "e" -> Item(<<"e">>, <<"http", "/courses/", "e">>, None)
      [] slug = "s" -> Item(<<"ke", "s">>, <<"http", "/services/", "s">>, None)

HahowHtml ==
    <<[href |-> <<"/courses/", "b">>, type |-> "service", students_text |-> None],
      [href |-> <<"/courses/", "a">>, type |-> "course",
       students_text |-> Some(<<"1", ",", "2">>)],
      [href |-> <<"/courses/", "c">>, type |-> "course", students_text |-> None],
      [href |-> <<"/courses/", "d">>, type |-> "", students_text |-> Some(<<",">>)]>>

PressplayItem(slug) ==
    CASE slug = "p" -> Item(<<"ke", "p">>, <<"http", "/project/", "p", "/about">>, None)
      [] slug = "q" -> Item(<<"ke", "q">>, <<"http", "/project/", "q">>, Some(LLM_COUNT))
      [] slug = "x" -> Item(<<"ke", "x">>, <<>>, None)

PressplayHtml ==
    <<[href |-> <<"/project/", "p", "/">>, funding |-> TRUE, text |-> <<"1", "xuexi">>],
      [href |-> <<"/project/", "q">>, funding |-> FALSE, text |-> <<"2", " ", "xuexi">>],
      [href |-> <<"/project/", "q">>, funding |-> FALSE, text |-> <<"x">>]>>

Page(items, html) == [raised |-> FALSE, json |-> Some(items), html |-> html]

\* what app.scrape can do on a listing page: raise, return no structured
\* data, or return the LLM's items with the page's HTML or with none
Listings(platform) ==
    {[raised |-> TRUE, json |-> None, html |-> None]}
    \cup
    (IF platform = "hahow"
     THEN {[raised |-> FALSE, json |-> None, html |-> Some(HahowHtml)],
           Page(<<HahowItem("b"), HahowItem("a"), HahowItem("e")>>, Some(HahowHtml)),
           Page(<<HahowItem("a"), HahowItem("c"), HahowItem("b")>>, Some(HahowHtml)),
           Page(<<HahowItem("b"), HahowItem("d"), HahowItem("d"), HahowItem("c")>>, None),
           Page(<<HahowItem("c"), HahowItem("d"), HahowItem("s")>>, Some(HahowHtml))}
     ELSE {[raised |-> FALSE, json |-> None, html |-> Some(PressplayHtml)],
           Page(<<PressplayItem("p"), PressplayItem("q"), PressplayItem("x")>>,
                Some(PressplayHtml)),
           Page(<<PressplayItem("q")>>, None)})

ListPlatform == PlatformOrder[list_platform]

\* one iteration of "for page_url in list_urls"
scrape_listing ==
    /\ mpc = "discover"
    /\ page_no <= MaxPages
    /\ Len(all_courses) < max_courses
    /\ \E res \in Listings(ListPlatform) :
         LET out == page_outcome(ListPlatform, res, all_courses, seen_urls)
         IN  /\ all_courses' = out.all_courses
             /\ seen_urls' = out.seen_urls
             /\ listing' = Some([res |-> res, page_no |-> page_no, before |-> all_courses])
    /\ page_no' = page_no + 1
    /\ UNCHANGED <<list_platform, result, mainVars, growthVars, extractVars, updateVars>>

\* the page loop ends (no page left, or the break on max_courses):
\* result[platform] = all_courses[:max_courses]
end_platform ==
    /\ mpc = "discover"
    /\ (page_no > MaxPages \/ Len(all_courses) >= max_courses)
    /\ result' = Append(result, <<ListPlatform, truncate(all_courses)>>)
    /\ mpc' = "listed"
    /\ UNCHANGED <<list_platform, page_no, all_courses, seen_urls, listing, cache,
                   prior_cache, config, discover, exit_code, inserted, growthVars, extractVars,
                   updateVars>>

\* the next iteration of "for platform, config in PLATFORMS.items()", or the
\* return of discover_courses
next_platform ==
    /\ mpc = "listed"
    /\ IF list_platform < Len(PlatformOrder)
       THEN /\ list_platform' = list_platform + 1
            /\ page_no' = 1
            /\ all_courses' = <<>>
            /\ seen_urls' = {}
            /\ listing' = None
            /\ mpc' = "discover"
       ELSE /\ mpc' = "discovered"
            /\ UNCHANGED <<list_platform, page_no, all_courses, seen_urls, listing>>
    /\ UNCHANGED <<result, cache, prior_cache, config, discover, exit_code, inserted, growthVars,
                   extractVars, updateVars>>

(***************************************************************************)
(* scraper.py: main.  The roster cache holds what json.dumps wrote: a dict  *)
(* with string keys of lists of dicts of strings, integers, booleans and    *)
(* None, which json.loads gives back as it was.                             *)
(***************************************************************************)
\* a roster written by an earlier discovery
OldRoster ==
    <<<<"hahow", <<[course_name |-> <<"ke", "o">>, url |-> <<"http", "/courses/", "o">>,
                    students |-> Some(7), is_funding |-> FALSE]>>>>,
      <<"pressplay", <<[course_name |-> <<"ke", "r">>,
                        url |-> <<"http", "/project/", "r">>,
                        students |-> None, is_funding |-> TRUE]>>>>>>

\* data/course_list.json when the process starts: no file, a file holding
\* "{}", or a roster
PriorCaches == {None, Some(<<>>), Some(OldRoster)}

\* {k: v for k, v in course_list.items() if v}
drop_empty(items) == SelectSeq(items, LAMBDA kv : kv[2] # <<>>)

\* sys.exit(code)
sys_exit(code) ==
    /\ exit_code' = Some(code)
    /\ mpc' = "exit"

\* rows = update_student_counts(app, course_list): the call
call_update(cl) ==
    /\ course_list' = cl
    /\ pc' = IF cl = <<>> THEN "done" ELSE "course"
    /\ platform_no' = 1
    /\ rank' = 1
    /\ attempt_no' = 1
    /\ fetches' = <<>>
    /\ rows' = <<>>
    /\ mpc' = "update"

InitScraper ==
    /\ cache \in PriorCaches
    /\ prior_cache = cache
    /\ config \in [FIRECRAWL_API_KEY : BOOLEAN, SUPABASE : BOOLEAN]
    /\ discover \in BOOLEAN
    /\ mpc = "start"
    /\ exit_code = None
    /\ inserted = None
    /\ DiscoverIdle
    /\ UpdateIdle
    /\ ExtractIdle
    /\ store = {}
    /\ df_f = <<>>
    /\ growth_df = None
    /\ sidebar = None
    /\ fast_view = None

\* main up to the choice between discovery and the cached roster
main_start ==
    /\ mpc = "start"
    /\ IF ~config.FIRECRAWL_API_KEY \/ ~config.SUPABASE
       THEN /\ sys_exit(1)
            /\ UNCHANGED updateVars
       ELSE IF discover \/ cache = None
            THEN /\ mpc' = "discover"
                 /\ UNCHANGED <<exit_code, updateVars>>
            ELSE /\ call_update(cache[1])
                 /\ UNCHANGED exit_code
    /\ UNCHANGED <<discoverVars, cache, prior_cache, config, discover, inserted, growthVars,
                   extractVars>>

\* main_discovered with the write before the test
main_discovered_writes_first ==
    /\ mpc = "discovered"
    /\ LET cl == drop_empty(result)
       IN  /\ cache' = Some(cl)
           /\ IF cl = <<>>
              THEN /\ sys_exit(1)
                   /\ UNCHANGED updateVars
              ELSE /\ call_update(cl)
                   /\ UNCHANGED exit_code
    /\ UNCHANGED <<discoverVars, prior_cache, config, discover, inserted, growthVars, extractVars>>

\* main_discovered where the new lists are added to the cached ones
main_discovered_merges ==
    /\ mpc = "discovered"
    /\ LET cl == drop_empty(result)
       IN  IF cl = <<>>
           THEN /\ sys_exit(1)
                /\ UNCHANGED <<cache, updateVars>>
           ELSE /\ cache' = Some((IF notna(cache) THEN cache[1] ELSE <<>>) \o cl)
                /\ call_update(cl)
                /\ UNCHANGED exit_code
    /\ UNCHANGED <<discoverVars, prior_cache, config, discover, inserted, growthVars, extractVars>>

\* main after discover_courses returned: the empty lists are dropped; no
\* list left: exit 1; else the cache file is written and the update starts
main_discovered ==
    /\ mpc = "discovered"
    /\ LET cl == drop_empty(result)
       IN  IF cl = <<>>
           THEN /\ sys_exit(1)
                /\ UNCHANGED <<cache, updateVars>>
           ELSE /\ cache' = Some(cl)
                /\ call_update(cl)
                /\ UNCHANGED exit_code
    /\ UNCHANGED <<discoverVars, prior_cache, config, discover, inserted, growthVars, extractVars>>

\* main_finish that inserts whatever rows there are
main_finish_no_test ==
    /\ mpc = "update"
    /\ pc = "done"
    /\ inserted' = Some(rows)
    /\ sys_exit(0)
    /\ UNCHANGED <<discoverVars, cache, prior_cache, config, discover, growthVars, extractVars,
                   updateVars>>

\* main after update_student_counts returned: no rows: exit 1; else the rows
\* are inserted and the process ends
main_finish ==
    /\ mpc = "update"
    /\ pc = "done"
    /\ IF rows = <<>>
       THEN /\ sys_exit(1)
            /\ UNCHANGED inserted
       ELSE /\ inserted' = Some(rows)
            /\ sys_exit(0)
    /\ UNCHANGED <<discoverVars, cache, prior_cache, config, discover, growthVars, extractVars,
                   updateVars>>

NextScraper ==
    \/ main_start
    \/ scrape_listing
    \/ end_platform
    \/ next_platform
    \/ main_discovered
    \/ KnownCount
    \/ InvalidUrl
    \/ EnterAttempts
    \/ Attempt
    \/ main_finish

SpecScraper == InitScraper /\ [][NextScraper]_vars

(***************************************************************************)
(* Rationals for "/" of Python floats: exact value, reduced, den > 0.       *)
(***************************************************************************)
Abs(n) == IF n < 0 THEN -n ELSE n

RECURSIVE GCD(_, _)
GCD(a, b) == IF b = 0 THEN a ELSE GCD(b, a % b)

Rat(n, d) ==
    LET g == GCD(Abs(n), Abs(d))
        s == IF d < 0 THEN -1 ELSE 1
    IN  [num |-> s * (n \div g), den |-> s * (d \div g)]

(***************************************************************************)
(* load_data: select * order by scraped_at.  Rows of one course with the    *)
(* same scraped_at come back in an order the store chooses; rows of         *)
(* different groups never meet in compute_growth, so among them the order   *)
(* is fixed here (by platform).                                             *)
(***************************************************************************)
Before(r1, r2) == r1.date < r2.date \/ (r1.date = r2.date /\ r1.tod < r2.tod)

PlatformIndex(pl) == CHOOSE i \in 1..Len(PlatformOrder) : PlatformOrder[i] = pl

Latest(S) ==
    LET late == {r \in S : \A q \in S : ~Before(r, q)}
        top  == CHOOSE i \in {PlatformIndex(r.platform) : r \in late} :
                    \A r \in late : PlatformIndex(r.platform) <= i
    IN  {r \in late : PlatformIndex(r.platform) = top}

RECURSIVE load_data(_)
load_data(S) ==
    IF S = {} THEN {<<>>}
    ELSE UNION {{Append(s, r) : s \in load_data(S \ {r})} : r \in Latest(S)}

(***************************************************************************)
(* compute_growth                                                           *)
(***************************************************************************)
\* grp.sort_values("scraped_at") on a frame already in scraped_at order:
\* insertion of each row after the rows that are not later than it.
RECURSIVE sort_values(_)
sort_values(s) ==
    IF s = <<>> THEN <<>>
    ELSE LET r    == s[Len(s)]
             rest == sort_values(SubSeq(s, 1, Len(s) - 1))
             k    == Cardinality({i \in 1..Len(rest) : ~Before(r, rest[i])})
         IN  SubSeq(rest, 1, k) \o <<r>> \o SubSeq(rest, k + 1, Len(rest))

\* df.groupby(["platform", "course_name"]): the rows of one key, order kept
GroupRows(df, platform, course_name) ==
    SelectSeq(df, LAMBDA r : r.platform = platform /\ r.course_name = course_name)

GroupKeys(df) == {<<df[i].platform, df[i].course_name>> : i \in 1..Len(df)}

\* GroupBy.last() on a nullable column: the last non-null entry, else null
LastNotNull(rs, col) ==
    LET idx == {i \in 1..Len(rs) : notna(rs[i][col])}
    IN  IF idx = {} THEN None
        ELSE rs[CHOOSE i \in idx : \A j \in idx : j <= i][col]

RECURSIVE SortedDates(_)
SortedDates(D) ==
    IF D = {} THEN <<>>
    ELSE LET d == CHOOSE x \in D : \A y \in D : x <= y
         IN  <<d>> \o SortedDates(D \ {d})

\* DailyRow with .count() in place of .last()
DailyRowCount(grp, d) ==
    LET rs == SelectSeq(grp, LAMBDA r : r.date = d)
        lst  == rs[Len(rs)]
    IN  [platform    |-> lst.platform,
         course_name |-> lst.course_name,
         date        |-> d,
         tod         |-> lst.tod,
         students    |-> Some(Cardinality({i \in 1..Len(rs) : notna(rs[i].students)}))]

\* one bucket: grp.groupby("_date").last() for the date d
DailyRow(grp, d) ==
    LET rs == SelectSeq(grp, LAMBDA r : r.date = d)
        lst  == rs[Len(rs)]
    IN  [platform    |-> lst.platform,
         course_name |-> lst.course_name,
         date        |-> d,
         tod         |-> lst.tod,
         students    |-> LastNotNull(rs, "students")]

\* daily = grp.groupby("_date", sort=True).last().reset_index()
DailyBuckets(grp) ==
    LET ds == SortedDates({grp[i].date : i \in 1..Len(grp)})
    IN  [k \in 1..Len(ds) |-> DailyRow(grp, ds[k])]

\* GrowthRecord with one field computed another way
GrowthRecordWith(platform, course_name, dl, field, value) ==
    LET first    == dl[1]
        last     == dl[Len(dl)]
        s0       == first.students
        s1       == last.students
        day_diff == last.date - first.date
        diff     == IF notna(s0) /\ notna(s1) THEN Some(s1[1] - s0[1]) ELSE None
        rec      == [platform        |-> platform,
                     course_name     |-> course_name,
                     latest_students |-> s1,
                     student_diff    |-> diff,
                     growth_rate     |-> IF notna(diff) /\ s0[1] # 0 /\ s0[1] > 0
                                         THEN Some(Rat(diff[1] * 100, s0[1])) ELSE None,
                     growth_speed    |-> IF notna(diff) /\ day_diff >= 1
                                         THEN Some(Rat(diff[1], day_diff)) ELSE None,
                     days_elapsed    |-> IF day_diff >= 1 THEN Some(day_diff) ELSE None,
                     scrape_count    |-> Len(dl)]
    IN  [rec EXCEPT ![field] = value]

\* student_diff only taken when the window spans two dates
GrowthRecordDiffNeedsTwoDays(platform, course_name, dl) ==
    LET s0 == dl[1].students
        s1 == dl[Len(dl)].students
        d  == IF notna(s0) /\ notna(s1) /\ Len(dl) >= 2 THEN Some(s1[1] - s0[1]) ELSE None
    IN  GrowthRecordWith(platform, course_name, dl, "student_diff", d)

\* growth_rate guarded by "diff is not None" only: a zero baseline gives 0
GrowthRecordRateUnguarded(platform, course_name, dl) ==
    LET s0 == dl[1].students
        s1 == dl[Len(dl)].students
        r  == IF notna(s0) /\ notna(s1)
              THEN Some(IF s0[1] > 0 THEN Rat((s1[1] - s0[1]) * 100, s0[1]) ELSE Rat(0, 1))
              ELSE None
    IN  GrowthRecordWith(platform, course_name, dl, "growth_rate", r)

\* days_elapsed counted inclusively (day_diff + 1), never null
GrowthRecordDaysInclusive(platform, course_name, dl) ==
    GrowthRecordWith(platform, course_name, dl, "days_elapsed",
                     Some(dl[Len(dl)].date - dl[1].date + 1))

\* student_diff as the change over the last two buckets
GrowthRecordDayOverDay(platform, course_name, dl) ==
    LET prev == IF Len(dl) > 1 THEN dl[Len(dl) - 1] ELSE dl[1]
        s0   == prev.students
        s1   == dl[Len(dl)].students
        d    == IF notna(s0) /\ notna(s1) THEN Some(s1[1] - s0[1]) ELSE None
    IN  GrowthRecordWith(platform, course_name, dl, "student_diff", d)

\* growth_speed only taken when the window spans more than two days
GrowthRecordSpeedNeedsGap(platform, course_name, dl) ==
    LET s0 == dl[1].students
        s1 == dl[Len(dl)].students
        dd == dl[Len(dl)].date - dl[1].date
        v  == IF notna(s0) /\ notna(s1) /\ dd >= 2 THEN Some(Rat(s1[1] - s0[1], dd)) ELSE None
    IN  GrowthRecordWith(platform, course_name, dl, "growth_speed", v)

\* the dict appended to rows for one group
GrowthRecord(platform, course_name, dl) ==
    LET first    == dl[1]
        last     == dl[Len(dl)]
        s0       == first.students
        s1       == last.students
        day_diff == last.date - first.date
        diff     == IF notna(s0) /\ notna(s1) THEN Some(s1[1] - s0[1]) ELSE None
        rate     == IF notna(diff) /\ s0[1] # 0 /\ s0[1] > 0
                    THEN Some(Rat(diff[1] * 100, s0[1])) ELSE None
        speed    == IF notna(diff) /\ day_diff >= 1
                    THEN Some(Rat(diff[1], day_diff)) ELSE None
    IN  [platform        |-> platform,
         course_name     |-> course_name,
         latest_students |-> s1,
         student_diff    |-> diff,
         growth_rate     |-> rate,
         growth_speed    |-> speed,
         days_elapsed    |-> IF day_diff >= 1 THEN Some(day_diff) ELSE None,
         scrape_count    |-> Len(dl)]

\* the group keys of df in groupby's (sorted) order
RECURSIVE SortedKeys(_, _)
SortedKeys(K, i) ==
    IF i > Len(PlatformOrder) THEN <<>>
    ELSE (IF <<PlatformOrder[i], "A">> \in K THEN <<<<PlatformOrder[i], "A">>>> ELSE <<>>)
         \o SortedKeys(K, i + 1)

GroupDaily(df, key) == DailyBuckets(sort_values(GroupRows(df, key[1], key[2])))

compute_growth(df) ==
    LET keys == SortedKeys(GroupKeys(df), 1)
    IN  [k \in 1..Len(keys) |->
            GrowthRecord(keys[k][1], keys[k][2], GroupDaily(df, keys[k]))]

(***************************************************************************)
(* The dashboard page: the scrape button and the page script, as far as the *)
(* growth engine sees them.                                                 *)
(***************************************************************************)
\* the slider of the growth-rate threshold, in percent
growth_threshold == 1..50

\* the rows of growth_df that the fastest-growing view keeps at threshold t:
\* growth_rate.notna() & (growth_rate >= growth_threshold)
fast(growth, t) ==
    SelectSeq(growth, LAMBDA r : /\ notna(r.growth_rate)
                                 /\ r.growth_rate[1].num >= t * r.growth_rate[1].den)

\* all_dates[0] and all_dates[-1]
FirstOf(D) == CHOOSE d \in D : \A e \in D : d <= e

LastOf(D) == CHOOSE d \in D : \A e \in D : e <= d

\* the sidebar as it is first shown: platform "全部" ("all"), the full date
\* range, the threshold at its default
DefaultSidebar(table) ==
    LET all_dates == {r.date : r \in table}
    IN  [selected_label   |-> "all",
         start_date       |-> FirstOf(all_dates),
         end_date         |-> LastOf(all_dates),
         growth_threshold |-> 5]

\* what the user can set the sidebar to: a platform that has rows or "全部";
\* with two dates or more, any range inside [all_dates[0], all_dates[-1]]
\* (an unfinished range counts as the last date alone), else the only date
Sidebars(table) ==
    LET all_dates == {r.date : r \in table}
        lo        == FirstOf(all_dates)
        hi        == LastOf(all_dates)
    IN  [selected_label   : {"all"} \cup {r.platform : r \in table},
         start_date       : lo..hi,
         end_date         : lo..hi,
         growth_threshold : {t \in growth_threshold : t = 1 \/ t = 50}]
        \ {sb \in [selected_label   : {"all"} \cup {r.platform : r \in table},
                    start_date       : lo..hi,
                    end_date         : lo..hi,
                    growth_threshold : growth_threshold] : sb.start_date > sb.end_date}

\* df_f: the platform filter and the date filter
apply_filters(df, sb) ==
    SelectSeq(df, LAMBDA r : /\ sb.selected_label = "all" \/ r.platform = sb.selected_label
                             /\ sb.start_date <= r.date
                             /\ r.date <= sb.end_date)

\* the columns of pd.DataFrame(rows): the keys of the dicts, none for no rows
columns(growth) == IF growth = <<>> THEN {} ELSE DOMAIN growth[1]

\* fast = growth_df[growth_df["growth_rate"]...]: a KeyError when the frame
\* has no such column, else the rows kept
fast_outcome(growth, t) ==
    IF "growth_rate" \in columns(growth)
    THEN [error |-> "", rows |-> fast(growth, t)]
    ELSE [error |-> "KeyError", rows |-> <<>>]

\* the page script below st.stop() with the sidebar at sb: load_data, the
\* filters, growth_df = compute_growth(df_f), fast
page_script(table, sb) ==
    \E df \in load_data(table) :
        LET filtered == apply_filters(df, sb)
            growth   == compute_growth(filtered)
        IN  /\ df_f' = filtered
            /\ growth_df' = Some(growth)
            /\ sidebar' = Some(sb)
            /\ fast_view' = Some(fast_outcome(growth, sb.growth_threshold))

\* the page script with the sidebar as first shown
Render(table) == page_script(table, DefaultSidebar(table))

\* df.empty: st.info(...) and st.stop()
InitGrowth ==
    /\ store = {}
    /\ df_f = <<>>
    /\ growth_df = None
    /\ sidebar = None
    /\ fast_view = None
    /\ ExtractIdle
    /\ UpdateIdle
    /\ ScraperIdle

\* run_scraper: the scraper inserts a row stamped with the clock of the run
\* (no stored row is later), then st.cache_data.clear() and st.rerun()
run_scraper ==
    /\ Cardinality(store) < MaxRows
    /\ \E r \in SnapshotRow :
         /\ r \notin store
         /\ \A q \in store : ~Before(r, q)
         /\ store' = store \cup {r}
         /\ Render(store \cup {r})
    /\ UNCHANGED <<extractVars, updateVars, scraperVars>>

\* any other rerun of the page script on a non-empty store
Rerun ==
    /\ store # {}
    /\ Render(store)
    /\ UNCHANGED <<store, extractVars, updateVars, scraperVars>>

NextGrowth == run_scraper \/ Rerun

SpecGrowth == InitGrowth /\ [][NextGrowth]_vars

(***************************************************************************)
(* The page with the sidebar in use, on a store that has rows.              *)
(***************************************************************************)
\* the snapshots of the store of the page: one per platform and day and count
PageRows ==
    [platform : Platforms, course_name : CourseNames, date : Days, tod : {0},
     students : {Some(5), Some(10)}]

InitPage ==
    /\ store \in {S \in SUBSET PageRows : S # {} /\ Cardinality(S) <= MaxRows}
    /\ df_f = <<>>
    /\ growth_df = None
    /\ sidebar = None
    /\ fast_view = None
    /\ ExtractIdle
    /\ UpdateIdle
    /\ ScraperIdle

\* a run of the script with the sidebar as the user has set it
set_sidebar ==
    /\ store # {}
    /\ sidebar = None
    /\ \E sb \in Sidebars(store) : page_script(store, sb)
    /\ UNCHANGED <<store, extractVars, updateVars, scraperVars>>

NextPage == set_sidebar

SpecPage == InitPage /\ [][NextPage]_vars


(***************************************************************************)
(* Properties of the growth engine.  They read the rendered page: df_f is   *)
(* the frame compute_growth was given, growth_df what it returned.          *)
(***************************************************************************)
Rendered == notna(growth_df)

GrowthRows == IF Rendered THEN growth_df[1] ELSE <<>>

\* the rows of df_f of the group of GrowthRecord g, as indices
RowsOfGroup(g) ==
    {i \in 1..Len(df_f) :
        df_f[i].platform = g.platform /\ df_f[i].course_name = g.course_name}

DatesOfGroup(g) == {df_f[i].date : i \in RowsOfGroup(g)}

FirstDate(g) == CHOOSE d \in DatesOfGroup(g) : \A e \in DatesOfGroup(g) : d <= e

LastDate(g) == CHOOSE d \in DatesOfGroup(g) : \A e \in DatesOfGroup(g) : e <= d

\* the students pandas' last() leaves in the bucket of date d: the last
\* non-null entry of the date, read off the frame
BucketStudents(g, d) ==
    LET idx == {i \in RowsOfGroup(g) : df_f[i].date = d /\ notna(df_f[i].students)}
    IN  IF idx = {} THEN None
        ELSE df_f[CHOOSE i \in idx : \A j \in idx : j <= i].students

\* the row of date d that is strictly later than every other row of the date
IsLastRowOfDate(g, d, i) ==
    /\ i \in RowsOfGroup(g)
    /\ df_f[i].date = d
    /\ \A j \in RowsOfGroup(g) : (j # i /\ df_f[j].date = d) => Before(df_f[j], df_f[i])

\* C1 (as claimed): in every group and for every date, each field of the
\* daily bucket is the value of the one row of that date with the greatest
\* scraped_at, a null students included.
C1_BucketIsLastRow ==
    \A k \in 1..Len(GrowthRows) :
        LET g  == GrowthRows[k]
            dl == GroupDaily(df_f, <<g.platform, g.course_name>>)
        IN  \A b \in 1..Len(dl) : \A i \in RowsOfGroup(g) :
                IsLastRowOfDate(g, dl[b].date, i) =>
                    /\ dl[b].students = df_f[i].students
                    /\ dl[b].tod = df_f[i].tod

\* C2 (as claimed): a group whose snapshots all fall on one date, with a
\* non-null count, has student_diff, growth_rate, growth_speed and
\* days_elapsed all null.
C2_SingleDateAllNull ==
    \A k \in 1..Len(GrowthRows) :
        LET g == GrowthRows[k]
        IN  (Cardinality(DatesOfGroup(g)) = 1 /\ notna(BucketStudents(g, FirstDate(g))))
            => /\ g.student_diff = None
               /\ g.growth_rate = None
               /\ g.growth_speed = None
               /\ g.days_elapsed = None

\* C2 (amended): such a group has student_diff = 0, growth_rate = 0 when the
\* count is positive and null when it is 0, and growth_speed and
\* days_elapsed null.
C2_SingleDate ==
    \A k \in 1..Len(GrowthRows) :
        LET g == GrowthRows[k]
            s == BucketStudents(g, FirstDate(g))
        IN  (Cardinality(DatesOfGroup(g)) = 1 /\ notna(s))
            => /\ g.student_diff = Some(0)
               /\ g.growth_rate = (IF s[1] > 0 THEN Some(Rat(0, 1)) ELSE None)
               /\ g.growth_speed = None
               /\ g.days_elapsed = None

\* the single observation of a positive count, rendered
C2_Witness ==
    /\ Rendered
    /\ Len(df_f) = 1
    /\ df_f[1].students = Some(5)
    /\ GrowthRows[1].student_diff = Some(0)

\* C3: growth_rate is null whenever the first bucket's students is null,
\* zero or negative; otherwise, when student_diff is non-null, it is
\* student_diff / first.students * 100.
C3_GrowthRate ==
    \A k \in 1..Len(GrowthRows) :
        LET g  == GrowthRows[k]
            s0 == BucketStudents(g, FirstDate(g))
        IN  /\ (s0 = None \/ s0[1] <= 0) => g.growth_rate = None
            /\ (notna(s0) /\ s0[1] > 0 /\ notna(g.student_diff))
                  => g.growth_rate = Some(Rat(g.student_diff[1] * 100, s0[1]))

\* first.students = 0 and last.students = 5 on two dates: rate null, diff 5
C3_Witness ==
    \E k \in 1..Len(GrowthRows) :
        LET g == GrowthRows[k]
        IN  /\ Cardinality(DatesOfGroup(g)) >= 2
            /\ BucketStudents(g, FirstDate(g)) = Some(0)
            /\ BucketStudents(g, LastDate(g)) = Some(5)
            /\ g.growth_rate = None
            /\ g.student_diff = Some(5)

\* C4: growth_speed and days_elapsed are null whenever the group spans fewer
\* than 2 dates, however many snapshots the date has; with at least 2 dates
\* and a non-null student_diff, growth_speed = student_diff / day_diff and
\* days_elapsed = day_diff.
C4_GrowthSpeed ==
    \A k \in 1..Len(GrowthRows) :
        LET g        == GrowthRows[k]
            day_diff == LastDate(g) - FirstDate(g)
        IN  /\ Cardinality(DatesOfGroup(g)) < 2
                  => (g.growth_speed = None /\ g.days_elapsed = None)
            /\ (Cardinality(DatesOfGroup(g)) >= 2 /\ notna(g.student_diff))
                  => /\ g.growth_speed = Some(Rat(g.student_diff[1], day_diff))
                     /\ g.days_elapsed = Some(day_diff)

\* two snapshots of one date with different timestamps and counts: no speed
C4_Witness ==
    \E k \in 1..Len(GrowthRows) :
        LET g == GrowthRows[k]
        IN  /\ Cardinality(DatesOfGroup(g)) = 1
            /\ \E i, j \in RowsOfGroup(g) :
                  /\ Before(df_f[i], df_f[j])
                  /\ df_f[i].students = Some(5)
                  /\ df_f[j].students = Some(10)
            /\ g.growth_speed = None
            /\ g.days_elapsed = None

\* C5: student_diff is last.students - first.students when both buckets'
\* students are non-null and null otherwise; no other bucket enters it.
C5_StudentDiff ==
    \A k \in 1..Len(GrowthRows) :
        LET g  == GrowthRows[k]
            s0 == BucketStudents(g, FirstDate(g))
            s1 == BucketStudents(g, LastDate(g))
        IN  g.student_diff =
                (IF notna(s0) /\ notna(s1) THEN Some(s1[1] - s0[1]) ELSE None)

\* three dates with counts 5, 0, 10: the diff is 5 whatever the middle date
C5_Witness ==
    \E k \in 1..Len(GrowthRows) :
        LET g == GrowthRows[k]
        IN  /\ Cardinality(DatesOfGroup(g)) = 3
            /\ BucketStudents(g, FirstDate(g)) = Some(5)
            /\ BucketStudents(g, LastDate(g)) = Some(10)
            /\ \E d \in DatesOfGroup(g) :
                  /\ d # FirstDate(g) /\ d # LastDate(g)
                  /\ BucketStudents(g, d) = Some(0)
            /\ g.student_diff = Some(5)

\* C6: bucketing is idempotent: sorting and bucketing the daily buckets of a
\* group again returns the same rows.
C6_BucketIdempotent ==
    \A k \in 1..Len(GrowthRows) :
        LET g  == GrowthRows[k]
            dl == GroupDaily(df_f, <<g.platform, g.course_name>>)
        IN  DailyBuckets(sort_values(dl)) = dl

\* a group with two snapshots on one date and a snapshot on another
C6_Witness ==
    \E k \in 1..Len(GrowthRows) :
        LET g == GrowthRows[k]
        IN  /\ Cardinality(DatesOfGroup(g)) = 2
            /\ Cardinality(RowsOfGroup(g)) = 3
            /\ GrowthRows[k].scrape_count = 2


(***************************************************************************)
(* Properties of the pattern extractor.                                     *)
(***************************************************************************)
\* pattern k matches the text and its captured group parses
Succeeds(k) ==
    /\ notna(re_search(patterns[k], md))
    /\ ~ValueError(re_search(patterns[k], md)[1])

\* C7: extract_students_from_markdown returns the parsed integer of the
\* first pattern, in declared order, that matches and whose group parses; a
\* pattern that matches and does not parse is passed over; no later pattern
\* changes the result; with no such pattern the result is None.
C7_FirstPatternWins ==
    returned =>
        LET ok == {k \in 1..Len(patterns) : Succeeds(k)}
        IN  IF ok = {} THEN students = None
            ELSE LET k == CHOOSE i \in ok : \A j \in ok : i <= j
                 IN  students = Some(parse_int(re_search(patterns[k], md)[1]))

\* the first pattern matches "," alone, which does not parse, and the second
\* pattern's 2 is returned
C7_Witness ==
    /\ returned
    /\ patterns = PressplayPatterns
    /\ md = <<",", "xuexi", "2", "yugou">>
    /\ students = Some(2)

\* both patterns match, with different numbers: the first one's is returned
C7_WitnessOrder ==
    /\ returned
    /\ patterns = PressplayPatterns
    /\ md = <<"1", "xuexi", "2", "yugou">>
    /\ students = Some(1)


(***************************************************************************)
(* Properties of update_student_counts.  fetches holds the app.scrape calls *)
(* of the course in the attempts loop, or of the course of the last row.    *)
(***************************************************************************)
\* the roster entries in the order of the two nested loops
RECURSIVE FlatRoster(_, _)
FlatRoster(cl, i) ==
    IF i > Len(cl) THEN <<>>
    ELSE [k \in 1..Len(cl[i][2]) |->
             [platform |-> cl[i][1], rank |-> k, course |-> cl[i][2][k]]]
         \o FlatRoster(cl, i + 1)

Roster == FlatRoster(course_list, 1)

LastRow == rows[Len(rows)]

\* the roster entry the calls of fetches were made for
Fetched == Roster[IF pc = "attempt" THEN Len(rows) + 1 ELSE Len(rows)]

\* what the Pattern Extractor yields on the body of call f
Extractable(f) ==
    extract_students_from_markdown(markdown_or_empty(f.res).body,
                                   course_patterns(Fetched.platform, Fetched.course))

\* the body of call f is under the minimum length
Suspect(f) == markdown_or_empty(f.res).length < 1500

\* the loop of the fetched course has ended and its row is appended
CourseEnded == pc # "attempt" /\ fetches # <<>>

\* C8: for a course without a count and with an http URL, attempt 1
\* (stealth, wait 5000) precedes attempt 2 (no proxy, wait 15000) and there
\* are at most two fetches; attempt 2 follows attempt 1 exactly when
\* attempt 1 returned a body under 1500 characters, on which the extractor
\* is not run, or a body on which the extractor found nothing; a value
\* extracted on a non-suspect attempt 1 ends the sequence with that value;
\* after attempt 2 the count is what the extractor found, null if nothing.
C8_AttemptSequence ==
    /\ Len(fetches) <= 2
    /\ \A k \in 1..Len(fetches) :
          /\ fetches[k].attempt_no = k
          /\ k = 1 => (fetches[k].proxy = Some("stealth") /\ fetches[k].wait_for = 5000)
          /\ k = 2 => (fetches[k].proxy = None /\ fetches[k].wait_for = 15000)
    /\ pc = "attempt" => attempt_no = Len(fetches) + 1
    /\ (Len(fetches) = 2 \/ (pc = "attempt" /\ Len(fetches) = 1)) =>
          /\ ~fetches[1].res.raised
          /\ \/ Suspect(fetches[1]) /\ ~fetches[1].extracted
             \/ ~Suspect(fetches[1]) /\ fetches[1].extracted
                                     /\ Extractable(fetches[1]) = None
    /\ (CourseEnded /\ Len(fetches) = 1 /\ ~fetches[1].res.raised) =>
          /\ ~Suspect(fetches[1])
          /\ fetches[1].extracted
          /\ notna(Extractable(fetches[1]))
          /\ LastRow.students = Extractable(fetches[1])
    /\ (CourseEnded /\ Len(fetches) = 2 /\ ~fetches[2].res.raised) =>
          /\ fetches[2].extracted
          /\ LastRow.students = Extractable(fetches[2])

\* attempt 1 returned a short body that holds a count, attempt 2 a body
\* without one: two fetches, the extractor not run on the first, null recorded
C8_Witness ==
    /\ CourseEnded
    /\ Len(fetches) = 2
    /\ Suspect(fetches[1])
    /\ notna(Extractable(fetches[1]))
    /\ ~fetches[1].extracted
    /\ ~fetches[2].res.raised
    /\ Extractable(fetches[2]) = None
    /\ LastRow.students = None

\* C9: a fetch that raises is the last fetch of its course; the course's row
\* is appended with students null, and the loops go on with the next course
\* (or return when it was the last one).
C9_ExceptionAborts ==
    \A k \in 1..Len(fetches) :
        fetches[k].res.raised =>
            /\ k = Len(fetches)
            /\ pc # "attempt"
            /\ LastRow.students = None
            /\ LastRow.platform = Fetched.platform
            /\ LastRow.rank = Fetched.rank
            /\ IF Len(rows) = Len(Roster) THEN pc = "done"
               ELSE /\ pc = "course"
                    /\ CurPlatform = Roster[Len(rows) + 1].platform
                    /\ rank = Roster[Len(rows) + 1].rank

\* the second attempt of the first of two courses raised: its row has a
\* null count and the second course is next
C9_Witness ==
    /\ Len(fetches) = 2
    /\ fetches[2].res.raised
    /\ Len(rows) = 1
    /\ rows[1].students = None
    /\ Len(Roster) = 2
    /\ pc = "course"

\* C10: the rows are the roster entries, in roster order, one each, with
\* rank the position in the platform's list, whatever the outcome; a count
\* known from discovery is emitted as it is, and an unresolved one (invalid
\* URL, fetch exception, extraction miss) as null.
C10_OneRowPerCourse ==
    /\ Len(rows) <= Len(Roster)
    /\ pc = "done" => Len(rows) = Len(Roster)
    /\ pc # "done" =>
          Len(rows) + 1 <= Len(Roster)
          /\ CurPlatform = Roster[Len(rows) + 1].platform
          /\ rank = Roster[Len(rows) + 1].rank
    /\ \A i \in 1..Len(rows) :
          LET e == Roster[i]
              r == rows[i]
          IN  /\ r.platform = e.platform
              /\ r.rank = e.rank
              /\ r.course_name = e.course.course_name
              /\ r.course_url = strip(e.course.url)
              /\ notna(e.course.students) => r.students = e.course.students
              /\ (e.course.students = None /\ ~IsHttp(strip(e.course.url)))
                    => r.students = None
    /\ (CourseEnded /\ (fetches[Len(fetches)].res.raised
                        \/ Extractable(fetches[Len(fetches)]) = None))
          => LastRow.students = None

\* a platform with a course whose count is known and a course with an
\* invalid URL: two rows, ranks 1 and 2, the second with a null count
C10_Witness ==
    /\ pc = "done"
    /\ Len(rows) = 2
    /\ rows[1].rank = 1 /\ rows[1].students = Some(7)
    /\ rows[2].rank = 2 /\ rows[2].students = None
    /\ rows[2].platform = rows[1].platform
    /\ ~IsHttp(rows[2].course_url)


(***************************************************************************)
(* Properties of a run of the scraper: main, discover_courses and           *)
(* update_student_counts.                                                   *)
(***************************************************************************)
\* the process is in or past update_student_counts
Updating == mpc = "update" \/ (mpc = "exit" /\ course_list # <<>>)

\* C11: a roster entry with a count from discovery is never fetched (no
\* attempt is pending or logged for it) and its row carries the stored count;
\* the roster an update run works on is the cached one, so this holds in each
\* run that reads the cache.
C11_KnownCountNoFetch ==
    /\ Updating => cache = Some(course_list)
    /\ pc = "attempt" => CurCourse.students = None
    /\ fetches # <<>> => Fetched.course.students = None
    /\ \A i \in 1..Len(rows) :
          notna(Roster[i].course.students) =>
              rows[i].students = Roster[i].course.students

\* an update-only run on the cached roster has ended: the first course, with
\* a cached count of 7, has its row, and only the second course was fetched
C11_Witness ==
    /\ ~discover
    /\ cache = Some(OldRoster)
    /\ exit_code = Some(0)
    /\ Roster[1].course.students = Some(7)
    /\ rows[1].students = Some(7)
    /\ Len(rows) = 2
    /\ fetches # <<>>
    /\ Fetched = Roster[2]

\* no two entries of the list have the same url
NoDuplicateUrl(list) ==
    \A i, j \in 1..Len(list) : list[i].url = list[j].url => i = j

\* the urls of the entries of a list
UrlsOf(list) == {list[i].url : i \in 1..Len(list)}

\* the last listing page returned structured data
PageRead ==
    /\ mpc \in {"discover", "listed"}
    /\ notna(listing)
    /\ ~listing[1].res.raised
    /\ notna(listing[1].res.json)

\* the items of the last listing page that survive the filters
Survivors == page_courses(ListPlatform, listing[1].res)

\* C12: the accumulated list of a platform, and every list returned, never
\* holds two entries with the same url, and every accepted url is recorded.
C12_NoDuplicateUrl ==
    /\ NoDuplicateUrl(all_courses)
    /\ UrlsOf(all_courses) = seen_urls
    /\ \A k \in 1..Len(result) : NoDuplicateUrl(result[k][2])

\* the second page repeated an item of the first page and added a new one
C12_Witness ==
    /\ PageRead
    /\ listing[1].page_no = 2
    /\ listing[1].before # <<>>
    /\ \E i \in 1..Len(Survivors) : Survivors[i].url \in UrlsOf(listing[1].before)
    /\ Len(all_courses) > Len(listing[1].before)

\* the indices of the surviving items of the last page that are met for the
\* first time in this discovery of the platform
FirstSeen ==
    {i \in 1..Len(Survivors) :
        /\ Survivors[i].url # <<>>
        /\ Survivors[i].url \notin UrlsOf(listing[1].before)
        /\ \A j \in 1..(i - 1) : Survivors[j].url # Survivors[i].url}

\* C13: the accumulated list is in encounter order (the list before the
\* page, then the page's first-seen items in page order), and the list
\* returned for a platform is its first max_courses entries.
C13_FirstMaxInOrder ==
    /\ \A k \in 1..Len(result) : Len(result[k][2]) <= max_courses
    /\ PageRead =>
          /\ Len(all_courses) = Len(listing[1].before) + Cardinality(FirstSeen)
          /\ \A i \in 1..Len(listing[1].before) : all_courses[i] = listing[1].before[i]
          /\ \A i \in FirstSeen :
                all_courses[Len(listing[1].before)
                            + Cardinality({j \in FirstSeen : j <= i})] = Survivors[i]
    /\ mpc \in {"listed", "discovered"} =>
          LET n == IF Len(all_courses) > max_courses THEN max_courses
                   ELSE Len(all_courses)
          IN  /\ result[Len(result)][1] = ListPlatform
              /\ Len(result[Len(result)][2]) = n
              /\ \A i \in 1..n : result[Len(result)][2][i] = all_courses[i]

\* a page took the accumulated list past max_courses: the list returned is
\* cut to the first max_courses entries
C13_Witness ==
    /\ mpc = "listed"
    /\ PageRead
    /\ Len(all_courses) > max_courses
    /\ Len(result[Len(result)][2]) = max_courses
    /\ result[Len(result)][2][1] = all_courses[1]

\* the entries of a roster
EntriesOf(items) == UNION {{items[k][2][i] : i \in 1..Len(items[k][2])} : k \in 1..Len(items)}

\* the discovery of this run has returned lists, not all empty
Obtained ==
    /\ mpc \in {"update", "exit"}
    /\ result # <<>>
    /\ drop_empty(result) # <<>>

\* C14: after a discovery that obtains courses the cache is this run's
\* non-empty lists and nothing else: no platform and no entry of the cache
\* as it was before the run is left, unless this run produced it.
C14_CacheReplaced ==
    Obtained =>
        /\ notna(cache)
        /\ Len(cache[1]) = Cardinality({k \in 1..Len(result) : result[k][2] # <<>>})
        /\ \A k \in 1..Len(cache[1]) :
              /\ cache[1][k][2] # <<>>
              /\ \E j \in 1..Len(result) : result[j] = cache[1][k]
        /\ \A k \in 1..Len(result) :
              result[k][2] # <<>> => \E j \in 1..Len(cache[1]) : cache[1][j] = result[k]
        /\ notna(prior_cache) =>
              EntriesOf(cache[1]) \cap (EntriesOf(prior_cache[1]) \ EntriesOf(result)) = {}

\* a discovery forced on a cache that had both platforms found courses on
\* hahow only: the new cache has no pressplay list
C14_Witness ==
    /\ Obtained
    /\ discover
    /\ prior_cache = Some(OldRoster)
    /\ result[2][2] = <<>>
    /\ Len(cache[1]) = 1
    /\ cache[1][1][1] = "hahow"

\* the category label of the card of the page's HTML that the url joins to
\* ("" when no card has the path of the url)
CardLabel(html, url) ==
    LET ks == {k \in 1..Len(html) : html[k].href = urlparse_path(url)}
    IN  IF ks = {} THEN ""
        ELSE html[CHOOSE k \in ks : \A j \in ks : j <= k].type

\* the LLM item passes the name and url filters of hahow
PassesFilters(c) ==
    /\ has_chinese(c.course_name)
    /\ Contains(c.url, "/courses/")
    /\ ~Contains(c.url, "/services/")
    /\ ~Contains(c.url, "/campaigns/")

\* C15: on a hahow page that has HTML, no item whose card carries a label
\* other than "課程" is added to the accumulated list, wherever it stands in
\* the LLM's list, and every item that passes the filters and whose card is
\* labelled "課程" is in the list.
C15_LabelOverridesLLM ==
    (PageRead /\ ListPlatform = "hahow" /\ notna(listing[1].res.html)) =>
        LET html   == listing[1].res.html[1]
            items  == listing[1].res.json[1]
            before == listing[1].before
        IN  /\ \A i \in (Len(before) + 1)..Len(all_courses) :
                  CardLabel(html, all_courses[i].url) \in {"", "course"}
            /\ \A k \in 1..Len(items) :
                  /\ (CardLabel(html, items[k].url) \notin {"", "course"}
                      /\ items[k].url \notin UrlsOf(before))
                        => items[k].url \notin UrlsOf(all_courses)
                  /\ (CardLabel(html, items[k].url) = "course" /\ PassesFilters(items[k]))
                        => items[k].url \in UrlsOf(all_courses)

\* the LLM kept a "服務" item first and a "課程" item after it: only the
\* second is in the list
C15_Witness ==
    /\ PageRead
    /\ ListPlatform = "hahow"
    /\ notna(listing[1].res.html)
    /\ listing[1].before = <<>>
    /\ LET html  == listing[1].res.html[1]
           items == listing[1].res.json[1]
       IN  /\ CardLabel(html, items[1].url) = "service"
           /\ PassesFilters(items[1])
           /\ CardLabel(html, items[2].url) = "course"
           /\ UrlsOf(all_courses) = {items[2].url}

\* both FIRECRAWL_API_KEY and the Supabase settings are present
ConfigOk == config.FIRECRAWL_API_KEY /\ config.SUPABASE

\* discover_courses ran and left no platform with courses
NoRosterObtained == result # <<>> /\ drop_empty(result) = <<>>

\* update_student_counts ran and returned no row
UpdateZeroRows ==
    /\ ConfigOk
    /\ Obtained \/ (~discover /\ notna(prior_cache))
    /\ rows = <<>>

PageFailed ==
    /\ mpc \in {"discover", "listed"}
    /\ notna(listing)
    /\ (listing[1].res.raised \/ listing[1].res.json = None)

\* C17: a listing page that raises or has no structured data leaves the
\* accumulated list as it was and the loop at the next page, which is then
\* fetched; every platform gets its list, in platform order, a platform
\* whose pages all failed an empty one.
C17_FailedPageSkipped ==
    /\ PageFailed =>
          /\ all_courses = listing[1].before
          /\ seen_urls = UrlsOf(listing[1].before)
    /\ (mpc = "discover" /\ notna(listing)) => page_no = listing[1].page_no + 1
    /\ (PageFailed /\ mpc = "discover") => Len(all_courses) < max_courses
    /\ \A k \in 1..Len(result) : result[k][1] = PlatformOrder[k]
    /\ mpc = "discover" => Len(result) = list_platform - 1
    /\ mpc = "listed" => Len(result) = list_platform
    /\ mpc = "discovered" => Len(result) = Len(PlatformOrder)

\* hahow ended with an empty list; on pressplay the second page raised after
\* the first gave courses, which are kept
C17_Witness ==
    /\ PageFailed
    /\ list_platform = 2
    /\ result[1] = <<"hahow", <<>>>>
    /\ listing[1].res.raised
    /\ listing[1].page_no = 2
    /\ listing[1].before # <<>>
    /\ all_courses = listing[1].before

\* C18: an update-only run leaves the cache as it was; a discovery that
\* obtains no courses exits with 1 and leaves it as it was; the cache
\* differs from what it was only after a discovery that obtained courses.
C18_CacheWrittenOnlyByDiscovery ==
    /\ (~discover /\ notna(prior_cache)) => cache = prior_cache
    /\ (mpc = "exit" /\ NoRosterObtained) =>
          (exit_code = Some(1) /\ cache = prior_cache)
    /\ cache # prior_cache => Obtained

\* a forced discovery found nothing: exit 1, the cached roster is as before
C18_Witness ==
    /\ mpc = "exit"
    /\ NoRosterObtained
    /\ discover
    /\ exit_code = Some(1)
    /\ prior_cache = Some(OldRoster)
    /\ cache = Some(OldRoster)

\* C19: no entry of the accumulated list or of a returned list carries the
\* count the LLM supplied, no row carries it, and a page without HTML adds
\* entries with a null count only.
C19_CountsComeFromCards ==
    /\ \A i \in 1..Len(all_courses) : all_courses[i].students # Some(LLM_COUNT)
    /\ \A e \in EntriesOf(result) : e.students # Some(LLM_COUNT)
    /\ \A i \in 1..Len(rows) : rows[i].students # Some(LLM_COUNT)
    /\ (PageRead /\ listing[1].res.html = None) =>
          \A i \in (Len(listing[1].before) + 1)..Len(all_courses) :
              all_courses[i].students = None

(***************************************************************************)
(* The fastest-growing view of the dashboard.                               *)
(***************************************************************************)
\* C20: a GrowthRecord whose growth_rate is non-null and at least 1, the
\* smallest threshold of the slider, has a non-null, positive student_diff
\* and a non-null, positive growth_speed; so has every row of the
\* fastest-growing view, at any threshold.
C20_FastRowsHaveDiffAndSpeed ==
    /\ \A i \in 1..Len(GrowthRows) :
          LET r == GrowthRows[i]
          IN  (notna(r.growth_rate) /\ r.growth_rate[1].num >= r.growth_rate[1].den) =>
                  /\ notna(r.student_diff)
                  /\ r.student_diff[1] > 0
                  /\ notna(r.growth_speed)
                  /\ r.growth_speed[1].num > 0
    /\ \A t \in growth_threshold :
          LET view == fast(GrowthRows, t)
          IN  \A i \in 1..Len(view) :
                  /\ notna(view[i].student_diff)
                  /\ notna(view[i].growth_speed)

\* a course that went from 5 to 10 students from one day to the next is in
\* the view at threshold 50, with a diff of 5 and a speed of 5 a day
C20_Witness ==
    /\ Rendered
    /\ \E i \in 1..Len(GrowthRows) :
          /\ GrowthRows[i].growth_rate = Some(Rat(100, 1))
          /\ GrowthRows[i].days_elapsed = Some(1)
          /\ GrowthRows[i].student_diff = Some(5)
          /\ GrowthRows[i].growth_speed = Some(Rat(5, 1))
    /\ fast(GrowthRows, 50) # <<>>

\* C21: for every filtered set the sidebar can produce from a store that
\* has rows, the empty one included, compute_growth and the fastest-growing
\* filter end without error, and the table of an empty set still has the
\* growth_rate and growth_speed columns.
C21_FastCompletes ==
    notna(fast_view) =>
        /\ fast_view[1].error = ""
        /\ df_f = <<>> =>
              /\ GrowthRows = <<>>
              /\ {"growth_rate", "growth_speed"} \subseteq columns(GrowthRows)

=============================================================================
